---- MODULE Spec2Model ----
(***************************************************************************)
(* Inventory API: the five route handlers of routes/productos.js over the  *)
(* Producto model of models/producto.js.  The collection is a set of       *)
(* documents; each handler makes one call on the model and turns its       *)
(* result, or the error it throws, into one HTTP response.                 *)
(*                                                                         *)
(* What the model calls do is what Mongoose does for this schema: a new    *)
(* document takes the body's _id when it has one and a fresh ObjectId      *)
(* otherwise; save() runs the required validators, stamps createdAt and    *)
(* updatedAt with one clock reading and inserts under the unique _id       *)
(* index; findById, findByIdAndUpdate and findByIdAndDelete throw          *)
(* CastError for an id that is no ObjectId; findByIdAndUpdate casts the    *)
(* update, runs no validators, sets the supplied fields and updatedAt in   *)
(* one atomic store command and never inserts.  Any call may also fail     *)
(* with a store error.                                                     *)
(*                                                                         *)
(* Spec handles the requests one after the other; SpecPut interleaves two  *)
(* PUT handlers at their await.                                            *)
(***************************************************************************)
EXTENDS Integers, FiniteSets, TLC

\* Bounds of the model.
MaxIds == 2
MaxClock == 1

\* Path and body identifiers: the strings that cast to an ObjectId, one that
\* does not, and the mark of a body that carries no _id.
WFIds == 1..MaxIds
BadId == 0
NoId == -1
PathIds == WFIds \cup {BadId}

\* JSON values of the body fields.  "absent" is a key the body does not hold,
\* "s2" the string "2", "bad" a value that casts to no number.
NameValues == {"absent", "A"}
PriceValues == {"absent", "null", "n1", "s2", "bad"}
QuantityValues == {"absent", "n1"}
BrandValues == {"absent", "M"}

PostBodies == [_id : {NoId} \cup WFIds, name : NameValues, price : PriceValues,
               quantity : QuantityValues, brand : BrandValues]
PutBodies == [_id : {NoId}, name : NameValues, price : PriceValues,
              quantity : {"absent"}, brand : BrandValues]
EmptyBody == [_id |-> NoId, name |-> "absent", price |-> "absent",
              quantity |-> "absent", brand |-> "absent"]

\* coll: the productos collection.  now: Date.now().  req, res: the request
\* being answered and its response, until the response is sent.  deleted: the
\* ids DELETE has removed.  created: the records POST returned that no PUT or
\* DELETE has touched since.
\* calls: two PUT requests handled concurrently, each with its place in the
\* handler; before: the collection when they arrived.
VARIABLES coll, now, deleted, created, req, res, calls, before
vars == <<coll, now, deleted, created, req, res, calls, before>>

----------------------------------------------------------------------------
\* models/producto.js: the schema's casts, defaults and validators.

\* type: String
CastString(v) == v

\* type: Number
CastNumber(v) ==
  CASE v = "s2" -> "n2"
    [] v = "bad" -> "castError"
    [] OTHER -> v

\* required: true
Required(v) == v \notin {"absent", "null", "castError"}

\* brand: { type: String, default: 0 }
BrandDefault == "0"

Ids(c) == {d._id : d \in c}

\* The ObjectId a new document gets: one no document has had.
FreshIds == WFIds \ (Ids(coll) \cup deleted)
ObjectId == CHOOSE i \in FreshIds : \A j \in FreshIds : i <= j

\* new Producto(req.body)
NewProducto(body) ==
  [_id |-> IF body._id = NoId THEN ObjectId ELSE body._id,
   name |-> CastString(body.name),
   price |-> CastNumber(body.price),
   quantity |-> CastNumber(body.quantity),
   brand |-> IF body.brand = "absent" THEN BrandDefault ELSE CastString(body.brand)]

ValidateNoPrice(doc) == Required(doc.name) /\ Required(doc.quantity)

Validate(doc) ==
  Required(doc.name) /\ Required(doc.price) /\ Required(doc.quantity)

\* timestamps: true, on a new document
Stamp(doc, t) == doc @@ [createdAt |-> t, updatedAt |-> t]

Result(err, docs, c, n) ==
  [err |-> err, docs |-> docs, coll |-> c, calls |-> n]

saveDroppingDefault(doc, t, fault, c) ==
  IF ~Validate(doc) THEN Result("ValidationError", {}, c, 0)
  ELSE IF fault THEN Result("StoreError", {}, c, 1)
  ELSE IF doc._id \in Ids(c) THEN Result("DuplicateKey", {}, c, 1)
  ELSE Result("none", {Stamp(doc, t)},
              c \cup {[Stamp(doc, t) EXCEPT !.brand = "absent"]}, 1)

\* producto.save(): validate, stamp, insert under the unique _id index.
save(doc, t, fault, c) ==
  IF ~Validate(doc) THEN Result("ValidationError", {}, c, 0)
  ELSE IF fault THEN Result("StoreError", {}, c, 1)
  ELSE IF doc._id \in Ids(c) THEN Result("DuplicateKey", {}, c, 1)
  ELSE Result("none", {Stamp(doc, t)}, c \cup {Stamp(doc, t)}, 1)

Matching(c, id) == {d \in c : d._id = id}

\* Producto.find()
find(fault, c) ==
  IF fault THEN Result("StoreError", {}, c, 1)
  ELSE Result("none", c, c, 1)

\* Producto.findById(id)
findById(id, fault, c) ==
  IF id \notin WFIds THEN Result("CastError", {}, c, 0)
  ELSE IF fault THEN Result("StoreError", {}, c, 1)
  ELSE Result("none", Matching(c, id), c, 1)

\* The update document after the schema's casts.
CastUpdate(body) ==
  [name |-> CastString(body.name),
   price |-> CastNumber(body.price),
   quantity |-> CastNumber(body.quantity),
   brand |-> CastString(body.brand)]

Castable(body) ==
  LET u == CastUpdate(body)
  IN  "castError" \notin {u.name, u.price, u.quantity, u.brand}

Supplied(old, v) == IF v = "absent" THEN old ELSE v

ApplyRestamped(doc, u, t) ==
  [doc EXCEPT !.name = Supplied(@, u.name),
              !.price = Supplied(@, u.price),
              !.quantity = Supplied(@, u.quantity),
              !.brand = Supplied(@, u.brand),
              !.createdAt = t,
              !.updatedAt = t]

ApplyOverwrite(doc, u, t) ==
  [doc EXCEPT !.name = u.name, !.price = u.price,
              !.quantity = u.quantity, !.brand = u.brand,
              !.updatedAt = t]

\* $set of the supplied fields, and of updatedAt.
ApplyUpdate(doc, u, t) ==
  [doc EXCEPT !.name = Supplied(@, u.name),
              !.price = Supplied(@, u.price),
              !.quantity = Supplied(@, u.quantity),
              !.brand = Supplied(@, u.brand),
              !.updatedAt = t]

findByIdAndUpsert(id, body, t, fault, c) ==
  IF id \notin WFIds \/ ~Castable(body) THEN Result("CastError", {}, c, 0)
  ELSE IF fault THEN Result("StoreError", {}, c, 1)
  ELSE LET old == Matching(c, id)
           seed == IF old = {} THEN {Stamp([_id |-> id, name |-> "absent",
                                             price |-> "absent",
                                             quantity |-> "absent",
                                             brand |-> BrandDefault], t)}
                   ELSE old
           new == {ApplyUpdate(d, CastUpdate(body), t) : d \in seed}
       IN  Result("none", new, (c \ old) \cup new, 1)

\* Producto.findByIdAndUpdate(id, req.body, { new: true })
findByIdAndUpdate(id, body, t, fault, c) ==
  IF id \notin WFIds \/ ~Castable(body) THEN Result("CastError", {}, c, 0)
  ELSE IF fault THEN Result("StoreError", {}, c, 1)
  ELSE LET old == Matching(c, id)
           new == {ApplyUpdate(d, CastUpdate(body), t) : d \in old}
       IN  Result("none", new, (c \ old) \cup new, 1)

\* Producto.findByIdAndDelete(id)
findByIdAndDelete(id, fault, c) ==
  IF id \notin WFIds THEN Result("CastError", {}, c, 0)
  ELSE IF fault THEN Result("StoreError", {}, c, 1)
  ELSE LET old == Matching(c, id)
       IN  Result("none", old, c \ old, 1)

----------------------------------------------------------------------------
\* routes/productos.js: the handlers.

Response(status, docs, err, n) ==
  [status |-> status, docs |-> docs, err |-> err, dbCalls |-> n]

\* try { ... res.status(201).json(producto) } catch { res.status(400) }
PostResponse(r) ==
  IF r.err = "none" THEN Response(201, r.docs, "none", r.calls)
  ELSE Response(400, {}, r.err, r.calls)

\* res.json(productos), or 500 from the catch
GetAllResponse(r) ==
  IF r.err = "none" THEN Response(200, r.docs, "none", r.calls)
  ELSE Response(500, {}, r.err, r.calls)

\* 404 on null, res.json(producto), or 500 from the catch
GetByIdResponse(r) ==
  IF r.err # "none" THEN Response(500, {}, r.err, r.calls)
  ELSE IF r.docs = {} THEN Response(404, {}, "NotFound", r.calls)
  ELSE Response(200, r.docs, "none", r.calls)

\* 404 on null, res.json(producto), or 400 from the catch
PutResponse(r) ==
  IF r.err # "none" THEN Response(400, {}, r.err, r.calls)
  ELSE IF r.docs = {} THEN Response(404, {}, "NotFound", r.calls)
  ELSE Response(200, r.docs, "none", r.calls)

\* 404 on null, { message: 'Producto eliminado' }, or 500 from the catch
DeleteResponse(r) ==
  IF r.err # "none" THEN Response(500, {}, r.err, r.calls)
  ELSE IF r.docs = {} THEN Response(404, {}, "NotFound", r.calls)
  ELSE Response(200, {}, "none", r.calls)

Request(op, id, body, fault) ==
  [op |-> op, id |-> id, body |-> body, fault |-> fault]

NoRequest == Request("none", NoId, EmptyBody, FALSE)
NoResponse == Response(0, {}, "none", 0)

Untouched(id) == {d \in created : d._id # id}

Init ==
  /\ coll = {}
  /\ now = 0
  /\ deleted = {}
  /\ created = {}
  /\ req = NoRequest
  /\ res = NoResponse
  /\ calls = <<>>
  /\ before = {}

\* Date.now() advances between two requests.
Tick ==
  /\ req = NoRequest
  /\ now < MaxClock
  /\ now' = now + 1
  /\ UNCHANGED <<coll, deleted, created, req, res, calls, before>>

\* router.post('/').  A body without _id needs an id the model has left.
Post(body, fault) ==
  /\ req = NoRequest
  /\ body._id = NoId => FreshIds # {}
  /\ req' = Request("post", NoId, body, fault)
  /\ LET r == save(NewProducto(body), now, fault, coll)
     IN  /\ coll' = r.coll
         /\ res' = PostResponse(r)
         /\ created' = created \cup PostResponse(r).docs
  /\ UNCHANGED <<now, deleted, calls, before>>

\* router.get('/')
GetAll(fault) ==
  /\ req = NoRequest
  /\ req' = Request("list", NoId, EmptyBody, fault)
  /\ LET r == find(fault, coll)
     IN  /\ coll' = r.coll
         /\ res' = GetAllResponse(r)
  /\ UNCHANGED <<now, deleted, created, calls, before>>

\* router.get('/:id')
GetById(id, fault) ==
  /\ req = NoRequest
  /\ req' = Request("get", id, EmptyBody, fault)
  /\ LET r == findById(id, fault, coll)
     IN  /\ coll' = r.coll
         /\ res' = GetByIdResponse(r)
  /\ UNCHANGED <<now, deleted, created, calls, before>>

\* router.put('/:id')
Put(id, body, fault) ==
  /\ req = NoRequest
  /\ req' = Request("put", id, body, fault)
  /\ LET r == findByIdAndUpdate(id, body, now, fault, coll)
     IN  /\ coll' = r.coll
         /\ res' = PutResponse(r)
         /\ created' = IF PutResponse(r).status = 200 THEN Untouched(id)
                       ELSE created
  /\ UNCHANGED <<now, deleted, calls, before>>

\* router.delete('/:id')
Delete(id, fault) ==
  /\ req = NoRequest
  /\ req' = Request("delete", id, EmptyBody, fault)
  /\ LET r == findByIdAndDelete(id, fault, coll)
     IN  /\ coll' = r.coll
         /\ res' = DeleteResponse(r)
         /\ created' = IF DeleteResponse(r).status = 200 THEN Untouched(id)
                       ELSE created
         /\ deleted' = IF DeleteResponse(r).status = 200
                       THEN deleted \cup {id} ELSE deleted
  /\ UNCHANGED <<now, calls, before>>

\* The response is sent; the handler is done.
Reply ==
  /\ req # NoRequest
  /\ req' = NoRequest
  /\ res' = NoResponse
  /\ UNCHANGED <<coll, now, deleted, created, calls, before>>

Next ==
  \/ Tick
  \/ \E body \in PostBodies, fault \in BOOLEAN : Post(body, fault)
  \/ \E fault \in BOOLEAN : GetAll(fault)
  \/ \E id \in PathIds, fault \in BOOLEAN : GetById(id, fault)
  \/ \E id \in PathIds, body \in PutBodies, fault \in BOOLEAN : Put(id, body, fault)
  \/ \E id \in PathIds, fault \in BOOLEAN : Delete(id, fault)
  \/ Reply

Spec == Init /\ [][Next]_vars

----------------------------------------------------------------------------
\* Two PUT requests on one event loop.  Each handler runs to its await
\* (the casts and the updatedAt stamp are made there), the store then runs
\* the findOneAndUpdate command as one atomic step, and the handler resumes
\* with its result.

Callers == {1, 2}

Call(id, body) ==
  [id |-> id, body |-> body, pc |-> "start", t |-> 0, fault |-> FALSE,
   result |-> Result("none", {}, {}, 0), res |-> NoResponse]

\* A collection one POST has filled, or left empty.
Seeded == {save(NewProducto(b), 0, FALSE, {}).coll :
             b \in {x \in PostBodies : x._id = 1}}

InitPut ==
  /\ coll \in Seeded
  /\ before = coll
  /\ now = 0
  /\ deleted = {}
  /\ created = {}
  /\ req = NoRequest
  /\ res = NoResponse
  /\ calls \in [Callers -> {Call(id, body) : id \in WFIds, body \in PutBodies}]

\* Producto.findByIdAndUpdate(...) up to the await: a cast error rejects at
\* once, otherwise the command leaves with updatedAt = Date.now().
PutCall(i) ==
  /\ calls[i].pc = "start"
  /\ calls' = [calls EXCEPT ![i] =
       IF calls[i].id \notin WFIds \/ ~Castable(calls[i].body)
       THEN [@ EXCEPT !.pc = "answered",
                      !.result = Result("CastError", {}, {}, 0)]
       ELSE [@ EXCEPT !.pc = "sent", !.t = now]]
  /\ UNCHANGED <<coll, now, deleted, created, req, res, before>>

\* The store runs the command, or the call fails.
StoreExec(i, fault) ==
  /\ calls[i].pc = "sent"
  /\ LET r == findByIdAndUpdate(calls[i].id, calls[i].body, calls[i].t,
                                fault, coll)
     IN  /\ coll' = r.coll
         /\ calls' = [calls EXCEPT ![i] =
              [@ EXCEPT !.pc = "answered", !.fault = fault,
                        !.result = [r EXCEPT !.coll = {}]]]
  /\ UNCHANGED <<now, deleted, created, req, res, before>>

\* The handler resumes after the await and answers.
PutReply(i) ==
  /\ calls[i].pc = "answered"
  /\ calls' = [calls EXCEPT ![i] =
       [@ EXCEPT !.pc = "done", !.res = PutResponse(calls[i].result)]]
  /\ UNCHANGED <<coll, now, deleted, created, req, res, before>>

NextPut ==
  \/ Tick
  \/ \E i \in Callers : PutCall(i)
  \/ \E i \in Callers, fault \in BOOLEAN : StoreExec(i, fault)
  \/ \E i \in Callers : PutReply(i)

SpecPut == InitPut /\ [][NextPut]_vars

----------------------------------------------------------------------------
\* The claims.

Present(v) == v \notin {"absent", "null"}
IsNumber(v) == v \in {"n1", "n2"}
ById == {"get", "put", "delete"}

\* C1: a POST whose body holds a name and a numeric price, with or without
\* quantity and brand, is answered 201, adds exactly one record and returns
\* it with a generated id and createdAt = updatedAt.  (Stated for bodies
\* that bring no _id and calls the store answers.)
C1_CreateWithNameAndPrice ==
  [][(/\ req'.op = "post"
      /\ Present(req'.body.name)
      /\ IsNumber(req'.body.price)
      /\ req'.body._id = NoId
      /\ ~req'.fault)
     => (/\ res'.status = 201
         /\ Cardinality(coll') = Cardinality(coll) + 1
         /\ Cardinality(res'.docs) = 1
         /\ res'.docs = coll' \ coll
         /\ \A d \in res'.docs :
              d._id \in WFIds /\ d.createdAt = d.updatedAt)]_vars

\* C2: a POST whose body lacks name or lacks price is answered 400 with a
\* validation error, and the collection is left as it was.
C2_MissingRequiredIsRejected ==
  [][(/\ req'.op = "post"
      /\ (req'.body.name = "absent" \/ req'.body.price = "absent"))
     => (/\ res'.status = 400
         /\ res'.err = "ValidationError"
         /\ coll' = coll)]_vars

C2_Witness ==
  /\ req.op = "post"
  /\ req.body.name = "absent"
  /\ req.body.price = "n1"
  /\ res.status = 400
  /\ res.err = "ValidationError"
  /\ coll # {}

\* C3, as stated: for any id no stored record has, GET, PUT (any body) and
\* DELETE are answered 404 and leave the collection as it was.  (Stated for
\* well-formed ids and calls the store answers.)
C3_AbsentIdIsNotFound ==
  [][(/\ req'.op \in ById
      /\ ~req'.fault
      /\ req'.id \in WFIds
      /\ Matching(coll, req'.id) = {})
     => (res'.status = 404 /\ coll' = coll)]_vars

\* C3, amended: for any well-formed id no stored record has, GET, DELETE and
\* a PUT whose body casts to the schema's types are answered 404 and leave
\* the collection as it was, when the store answers the call.
C3_AbsentWellFormedIdIsNotFound ==
  [][(/\ req'.op \in ById
      /\ ~req'.fault
      /\ req'.id \in WFIds
      /\ Matching(coll, req'.id) = {}
      /\ Castable(req'.body))
     => (/\ res'.status = 404
         /\ res'.err = "NotFound"
         /\ coll' = coll)]_vars

C3_Witness ==
  /\ req.op = "put"
  /\ req.id \in WFIds
  /\ req.body.price = "n1"
  /\ res.status = 404
  /\ coll # {}

\* C4: a record DELETE has removed stays removed: no later PUT or POST puts a
\* record with that id back.
C4_DeletedStaysDeleted ==
  \A id \in deleted : Matching(coll, id) = {}

OnlyPrice(body) ==
  /\ body.price # "absent"
  /\ body.name = "absent"
  /\ body.quantity = "absent"
  /\ body.brand = "absent"

\* What GET /{id} answers on collection c when the store answers.
Got(c, id) == GetByIdResponse(findById(id, FALSE, c))

PriceOnlyUpdate(strict) ==
  (/\ req'.op = "put"
   /\ res'.status = 200
   /\ OnlyPrice(req'.body))
  => (/\ Matching(coll, req'.id) # {}
      /\ Got(coll', req'.id).status = 200
      /\ \A o \in Matching(coll, req'.id), n \in Got(coll', req'.id).docs :
           /\ n.price = CastNumber(req'.body.price)
           /\ n._id = o._id
           /\ n.createdAt = o.createdAt
           /\ n.name = o.name
           /\ n.quantity = o.quantity
           /\ n.brand = o.brand
           /\ IF strict THEN n.updatedAt > o.updatedAt
              ELSE n.updatedAt >= o.updatedAt /\ n.updatedAt = now)

C6_RoundTrip ==
  /\ \A d \in created : Got(coll, d._id) = Response(200, {d}, "none", 1)
  /\ (req.op = "get" /\ ~req.fault /\ req.id \in Ids(created))
       => (res.status = 200 /\ res.docs \subseteq created)

C6_Witness ==
  /\ req.op = "get"
  /\ res.status = 200
  /\ res.docs \subseteq created
  /\ \E d \in res.docs : d.brand = BrandDefault /\ d.price = "n2"
  /\ Cardinality(coll) = 2

\* C7: every stored record has an id no other record has, and holds a name
\* and a price.
C7_UniqueAndComplete ==
  /\ Cardinality(Ids(coll)) = Cardinality(coll)
  /\ \A d \in coll : Present(d.name) /\ Present(d.price)

\* C8: GET, PUT and DELETE with an id that is not well formed are answered
\* 404 or 400 and leave the collection as it was.
C8_MalformedIdIsClientError ==
  [][(req'.op \in ById /\ req'.id \notin WFIds)
     => (res'.status \in {400, 404} /\ coll' = coll)]_vars

\* C9: a store failure during the database call is answered with status
\* 500, after one call.
C9_StoreFailureIs500 ==
  (res.err = "StoreError") => (res.status = 500 /\ res.dbCalls = 1)

\* The later of two $set values of one field, over the stored value.
Later(stored, first, second) ==
  IF second # "absent" THEN second
  ELSE IF first # "absent" THEN first
  ELSE stored

\* Record o after the update of call a, then the update of call b.
Serial(o, a, b) ==
  [_id |-> o._id,
   name |-> Later(o.name, a.body.name, b.body.name),
   price |-> Later(o.price, CastNumber(a.body.price), CastNumber(b.body.price)),
   quantity |-> Later(o.quantity, CastNumber(a.body.quantity),
                      CastNumber(b.body.quantity)),
   brand |-> Later(o.brand, a.body.brand, b.body.brand),
   createdAt |-> o.createdAt,
   updatedAt |-> b.t]

BothOnExisting ==
  /\ \A i \in Callers : calls[i].pc = "done"
  /\ calls[1].id = calls[2].id
  /\ Matching(before, calls[1].id) # {}
  /\ \A i \in Callers : Castable(calls[i].body) /\ ~calls[i].fault

\* C10: two concurrent PUTs on one existing record (bodies that cast, calls
\* the store answers) are both answered 200 under every interleaving, and
\* the stored record is the one that results from applying the two updates
\* one after the other in one of the two orders.
C10_ConcurrentPutsSerialize ==
  BothOnExisting =>
    /\ \A i \in Callers : calls[i].res.status = 200
    /\ \E a \in Callers, b \in Callers :
         /\ a # b
         /\ Matching(coll, calls[1].id) =
              {Serial(o, calls[a], calls[b]) : o \in Matching(before, calls[1].id)}

\* Call 1 reached its await first and was run by the store last: both supply
\* price, only call 1 supplies brand, only call 2 supplies name.
C10_Witness ==
  /\ BothOnExisting
  /\ calls[1].t < calls[2].t
  /\ calls[1].body.price = "n1" /\ calls[2].body.price = "s2"
  /\ calls[1].body.brand = "M" /\ calls[2].body.brand = "absent"
  /\ calls[1].body.name = "absent" /\ calls[2].body.name = "A"
  /\ \E d \in coll :
       d.price = "n1" /\ d.brand = "M" /\ d.updatedAt = calls[1].t

====
